---- MODULE Spec2Model ----
(***************************************************************************)
(* A model of flapmyport_api (src/main.go): the two in-memory             *)
(* transformations of the service.                                        *)
(*                                                                         *)
(*   Flapper.Review     folds the rows FetchFromDB returned into a list of *)
(*                      Host values, each with its PortView list, plus the *)
(*                      window Params (OldestFlapID, First/LastFlapTime).  *)
(*   Flapper.FlapChart  buckets the flaps of one port into a timeLine of   *)
(*                      flapChartWidth cells and resolves it to colours.   *)
(*                                                                         *)
(* The database, HTTP and PNG layers are not modelled: the rows a query    *)
(* returns are the inputs, drawn from bounded sets in the initial state.   *)
(***************************************************************************)
EXTENDS Integers, Sequences, FiniteSets, TLC

VARIABLES
    pc,                   \* where the running handler is
    rows,                 \* Review: what FetchFromDB returned ([]PortRow)
    perIterationLoopVar,  \* Review: does `for _, portRow := range` make a fresh
                          \*   portRow per iteration (Go >= 1.22) or one for the loop
    idx,                  \* Review: index of the next row of the range loop
    loopVars,             \* Review: storage of the portRow loop variable(s)
    result,               \* Review: the ReviewResult under construction
    host,                 \* Review: *host, the Host under construction
    merged,               \* history: <<host position, port position>> -> the
                          \*   indices of the rows folded into that PortView
    qStart, qEnd,         \* FlapChart: q.Start.Unix(), q.End.Unix()
    cent,                 \* FlapChart: the seconds one bucket spans (float64)
    flaps,                \* FlapChart: what PortFlaps returned ([]Flap)
    fidx,                 \* FlapChart: index of the next flap of the range loop
    status,               \* FlapChart: the carried-over status
    timeLine,             \* FlapChart: timeLine[0 .. flapChartWidth-1]
    colorLine,            \* FlapChart: colorLine[0 .. flapChartWidth-1]
    lastX                 \* history: the bucket index x of each flap processed

vars == <<pc, rows, perIterationLoopVar, idx, loopVars, result, host, merged,
          qStart, qEnd, cent, flaps, fidx, status, timeLine, colorLine, lastX>>

reviewVars == <<rows, perIterationLoopVar, idx, loopVars, result, host, merged>>
chartVars  == <<qStart, qEnd, cent, flaps, fidx, status, timeLine, colorLine, lastX>>

(***************************************************************************)
(* Bounds of the model.                                                    *)
(***************************************************************************)
MaxRows == 3          \* longest row sequence Review is run on
MaxFlaps == 2         \* longest flap sequence FlapChart is run on

(***************************************************************************)
(* Program constants.                                                      *)
(***************************************************************************)
flapChartWidth == 333
ifStatusUpCaption == "up"
ifStatusDownCaption == "down"

\* A nil *string / *time.Time.  No column value equals it.
NULL == "<nil>"
NilPtr == 0

(***************************************************************************)
(* The rows of the ports table (type PortRow).  Sid and TimeTicks are      *)
(* never read by Review or FlapChart and are left out.                     *)
(***************************************************************************)
\* Device addresses in the ORDER BY order of the query; the column is a
\* plain string and "" is one of its values.
AddrOrder == <<"", "10.0.0.1", "10.0.0.2">>
Addrs == {AddrOrder[i] : i \in DOMAIN AddrOrder}
AddrRank(a) == CHOOSE i \in DOMAIN AddrOrder : AddrOrder[i] = a

IfIndexes == {1, 2}
Ids == {0, 1}
Times == {1, 2, 3}                    \* portRow.Time, in seconds
Aliases == {NULL, "uplink", "core"}
OperStatuses == {ifStatusUpCaption, ifStatusDownCaption}

\* Rows that differ in device, port and id (same instant, no alias).
RowsByDevice ==
    [Id : Ids, Time : {1}, Ipaddress : Addrs, Hostname : {NULL},
     IfIndex : IfIndexes, IfName : {NULL}, IfAlias : {NULL},
     IfOperStatus : {ifStatusUpCaption}]

\* Rows of one port that differ in time, alias and status.
RowsByTime ==
    [Id : {1}, Time : Times, Ipaddress : {"10.0.0.1"}, Hostname : {"sw1"},
     IfIndex : {1}, IfName : {"ge-0/0/1"}, IfAlias : Aliases,
     IfOperStatus : OperStatuses]

RowSeqs(S) == UNION {[1..n -> S] : n \in 0..MaxRows}

(***************************************************************************)
(* PortView                                                                *)
(***************************************************************************)
\* fmt.Sprintf("<ifIndex %d>", r.IfIndex)
SynthIfName(n) == [fmt |-> "<ifIndex %d>", arg |-> n]

\* PortView{} followed by port.FromDB(r)
PortViewFromDB(r) ==
    [IfIndex       |-> r.IfIndex,
     IfName        |-> IF r.IfName = NULL THEN SynthIfName(r.IfIndex) ELSE r.IfName,
     IfAlias       |-> IF r.IfAlias # NULL THEN r.IfAlias ELSE "",
     IfOperStatus  |-> r.IfOperStatus,
     FlapCount     |-> 1,
     FirstFlapTime |-> r.Time,
     LastFlapTime  |-> r.Time,
     IsBlacklisted |-> FALSE]

\* A slip of updateFromDB: the span is only ever extended backwards.
PortViewUpdateNoForward(p, r) ==
    [p EXCEPT !.FlapCount = @ + 1,
              !.IfAlias = IF r.IfAlias # NULL THEN r.IfAlias ELSE @,
              !.FirstFlapTime = IF r.Time < p.FirstFlapTime THEN r.Time ELSE @]

\* p.updateFromDB(r); called only with p.IfIndex = r.IfIndex.  The times are
\* pointers to the callee's own copy of r, so they are values here.
PortViewUpdateFromDB(p, r) ==
    [p EXCEPT !.FlapCount = @ + 1,
              !.IfAlias = IF r.IfAlias # NULL THEN r.IfAlias ELSE @,
              !.FirstFlapTime = IF r.Time < p.FirstFlapTime THEN r.Time ELSE @,
              !.LastFlapTime  = IF r.Time < p.FirstFlapTime THEN @
                                ELSE IF r.Time > p.LastFlapTime THEN r.Time ELSE @]

(***************************************************************************)
(* Host                                                                    *)
(***************************************************************************)
ZeroHost == [Name |-> "", Ipaddress |-> "", Ports |-> <<>>]

HostName(r) == IF r.Hostname # NULL THEN r.Hostname ELSE ""

\* h.FromDB(r): the port is appended to whatever h.Ports already holds.
HostFromDB(h, r) ==
    [Name |-> HostName(r), Ipaddress |-> r.Ipaddress,
     Ports |-> Append(h.Ports, PortViewFromDB(r))]

\* The position in h.Ports of the first port with this ifIndex, 0 if none.
FindPort(h, n) ==
    IF \E i \in 1..Len(h.Ports) : h.Ports[i].IfIndex = n
    THEN CHOOSE i \in 1..Len(h.Ports) :
            /\ h.Ports[i].IfIndex = n
            /\ \A j \in 1..(i - 1) : h.Ports[j].IfIndex # n
    ELSE 0

\* h.UpdateFromDB(r); called only with h.Ipaddress = r.Ipaddress.
HostUpdateFromDB(h, r) ==
    LET i == FindPort(h, r.IfIndex) IN
    [h EXCEPT !.Name = HostName(r),
              !.Ports = IF i # 0
                        THEN [@ EXCEPT ![i] = PortViewUpdateFromDB(@, r)]
                        ELSE Append(@, PortViewFromDB(r))]

(***************************************************************************)
(* Flapper.Review                                                          *)
(***************************************************************************)
ZeroResult ==
    [Hosts  |-> <<>>,
     Params |-> [FirstFlapTime |-> NilPtr, LastFlapTime |-> NilPtr,
                 OldestFlapID |-> 0]]

\* The storage cell &portRow names in iteration i.
LoopVarCell(i) == IF perIterationLoopVar THEN i ELSE 1

\* portRow := rows[i] at the head of iteration i.
AssignLoopVar(i) ==
    IF perIterationLoopVar THEN Append(loopVars, rows[i]) ELSE <<rows[i]>>

\* *p for a *time.Time that points into a portRow.
Deref(p) == loopVars[p].Time

\* if result.Params.OldestFlapID == 0 { result.Params.OldestFlapID = portRow.Id }
NextOldestFlapID(cur, r) == IF cur = 0 THEN r.Id ELSE cur

\* The first statements of the loop body.
NextParams(p, i) ==
    [OldestFlapID  |-> NextOldestFlapID(p.OldestFlapID, rows[i]),
     FirstFlapTime |-> IF p.FirstFlapTime = NilPtr THEN LoopVarCell(i)
                       ELSE p.FirstFlapTime,
     LastFlapTime  |-> LoopVarCell(i)]

InLoop == pc = "review" /\ idx <= Len(rows)

LoopStep ==
    /\ loopVars' = AssignLoopVar(idx)
    /\ idx' = idx + 1
    /\ UNCHANGED <<pc, rows, perIterationLoopVar>>
    /\ UNCHANGED chartVars

\* The key of the history variable for a port of the host under construction.
CurKey(hosts, pos) == <<Len(hosts) + 1, pos>>

Extend(f, k, v) == [x \in DOMAIN f \cup {k} |-> IF x = k THEN v ELSE f[x]]

\* if host.Ipaddress == "" { host.FromDB(portRow) }
ReviewFromDB ==
    /\ InLoop
    /\ host.Ipaddress = ""
    /\ result' = [result EXCEPT !.Params = NextParams(@, idx)]
    /\ host' = HostFromDB(host, rows[idx])
    /\ merged' = Extend(merged, CurKey(result.Hosts, Len(host.Ports) + 1), <<idx>>)
    /\ LoopStep

\* else if host.Ipaddress == portRow.Ipaddress { host.UpdateFromDB(portRow) }
ReviewUpdateFromDB ==
    /\ InLoop
    /\ host.Ipaddress # ""
    /\ host.Ipaddress = rows[idx].Ipaddress
    /\ result' = [result EXCEPT !.Params = NextParams(@, idx)]
    /\ host' = HostUpdateFromDB(host, rows[idx])
    /\ LET i == FindPort(host, rows[idx].IfIndex) IN
       merged' = IF i # 0
                 THEN [merged EXCEPT ![CurKey(result.Hosts, i)] = Append(@, idx)]
                 ELSE Extend(merged, CurKey(result.Hosts, Len(host.Ports) + 1),
                             <<idx>>)
    /\ LoopStep

\* else { result.Hosts = append(result.Hosts, *host); host = &Host{};
\*        host.FromDB(portRow) }
ReviewNextHost ==
    /\ InLoop
    /\ host.Ipaddress # ""
    /\ host.Ipaddress # rows[idx].Ipaddress
    /\ result' = [result EXCEPT !.Params = NextParams(@, idx),
                                !.Hosts = Append(@, host)]
    /\ host' = HostFromDB(ZeroHost, rows[idx])
    /\ merged' = Extend(merged, CurKey(result'.Hosts, 1), <<idx>>)
    /\ LoopStep

\* if host.Ipaddress != "" { result.Hosts = append(result.Hosts, *host) }
\* return result, nil
ReviewReturn ==
    /\ pc = "review"
    /\ idx > Len(rows)
    /\ result' = IF host.Ipaddress # ""
                 THEN [result EXCEPT !.Hosts = Append(@, host)]
                 ELSE result
    /\ pc' = "review_done"
    /\ UNCHANGED <<rows, perIterationLoopVar, idx, loopVars, host, merged>>
    /\ UNCHANGED chartVars

ChartIdle ==
    /\ qStart = 0 /\ qEnd = 0 /\ cent = [kind |-> "zero"] /\ flaps = <<>> /\ fidx = 1 /\ status = 0
    /\ timeLine = <<>> /\ colorLine = <<>> /\ lastX = <<>>

InitReview ==
    /\ pc = "review"
    /\ perIterationLoopVar \in BOOLEAN
    /\ rows \in RowSeqs(RowsByDevice) \cup RowSeqs(RowsByTime)
    /\ idx = 1
    /\ loopVars = <<>>
    /\ result = ZeroResult
    /\ host = ZeroHost
    /\ merged = <<>>
    /\ ChartIdle

NextReview ==
    \/ ReviewFromDB
    \/ ReviewUpdateFromDB
    \/ ReviewNextHost
    \/ ReviewReturn

SpecReview == InitReview /\ [][NextReview]_vars

(***************************************************************************)
(* float64 arithmetic, as FlapChart uses it: the conversion of a small     *)
(* non-negative int64, the correctly rounded (round-to-nearest-even)       *)
(* quotient of two such values, and the conversion back to int.            *)
(* A finite non-zero value is (hi * Limb + lo) * 2^exp with a 53-bit       *)
(* significand split into two limbs, since it does not fit one integer of  *)
(* TLC.  Exponents stay far from the subnormal and overflow range.         *)
(***************************************************************************)
MantissaBits == 53
Limb == 2^27                       \* lo < Limb; 2^25 <= hi < 2^26

RECURSIVE BitLen(_)
BitLen(n) == IF n = 0 THEN 0 ELSE 1 + BitLen(n \div 2)

FZero == [kind |-> "zero"]
FNaN  == [kind |-> "nan"]
FInf  == [kind |-> "inf"]

\* float64(n) for 0 <= n < 2^26: exact.
IntToFloat(n) ==
    IF n = 0 THEN FZero
    ELSE [kind |-> "num", hi |-> n * 2^(26 - BitLen(n)), lo |-> 0,
          exp |-> BitLen(n) - MantissaBits]

\* Two-limb naturals <<h, l>> = h * Limb + l.
GeqP(a, b) == a[1] > b[1] \/ (a[1] = b[1] /\ a[2] >= b[2])
SubP(a, b) == IF a[2] >= b[2] THEN <<a[1] - b[1], a[2] - b[2]>>
              ELSE <<a[1] - b[1] - 1, a[2] + Limb - b[2]>>
DblP(a) == <<2 * a[1] + (2 * a[2]) \div Limb, (2 * a[2]) % Limb>>

\* n steps of restoring division of R by D: the quotient bits and whether a
\* remainder is left.  (Q[1] is never negative: the test only makes TLC
\* evaluate Q at every step instead of piling the steps up.)
RECURSIVE DivLoop(_, _, _, _)
DivLoop(R, D, n, Q) ==
    IF n = 0 \/ Q[1] < 0 THEN [q |-> Q, inexact |-> R # <<0, 0>>]
    ELSE LET bit == GeqP(R, D)
             R1  == IF bit THEN SubP(R, D) ELSE R
             Q2  == DblP(Q)
         IN DivLoop(DblP(R1), D, n - 1, <<Q2[1], Q2[2] + (IF bit THEN 1 ELSE 0)>>)

\* a / b in float64, for a, b >= 0.
FDiv(a, b) ==
    IF a.kind = "zero" /\ b.kind = "zero" THEN FNaN
    ELSE IF b.kind = "zero" THEN FInf
    ELSE IF a.kind = "zero" THEN FZero
    ELSE
      LET mA == <<a.hi, a.lo>>
          mB == <<b.hi, b.lo>>
          ge == GeqP(mA, mB)
          R0 == IF ge THEN mA ELSE DblP(mA)
          d  == DivLoop(R0, mB, MantissaBits + 1, <<0, 0>>)
          \* d.q has 54 bits: the significand and a guard bit
          M  == <<d.q[1] \div 2, (d.q[2] \div 2) + (d.q[1] % 2) * (Limb \div 2)>>
          g  == d.q[2] % 2
          up == g = 1 /\ (d.inexact \/ M[2] % 2 = 1)
          M1 == IF ~up THEN M
                ELSE IF M[2] + 1 = Limb THEN <<M[1] + 1, 0>> ELSE <<M[1], M[2] + 1>>
          e  == a.exp - b.exp - (MantissaBits - 1) - (IF ge THEN 0 ELSE 1)
      IN IF M1[1] = Limb \div 2
         THEN [kind |-> "num", hi |-> Limb \div 4, lo |-> 0, exp |-> e + 1]
         ELSE [kind |-> "num", hi |-> M1[1], lo |-> M1[2], exp |-> e]

\* What int(f) can be when f has no int64 value: the language leaves the
\* result to the implementation (amd64 gives -2^63 for NaN and +Inf,
\* arm64 gives 0 for NaN and 2^63-1 for +Inf).  IntIndefinite stands for
\* -2^63 and HugeInt for 2^63-1 and for every finite value from 2^30 on:
\* what is read of them is that they lie outside every slice.
IntIndefinite == -(2^30)
HugeInt == 2^30

\* int(f): the set of values the conversion can give (one for a finite f).
FloatToInt(f) ==
    IF f.kind = "nan" THEN {IntIndefinite, 0}
    ELSE IF f.kind = "inf" THEN {IntIndefinite, HugeInt}
    ELSE IF f.kind = "zero" THEN {0}
    ELSE LET k == 0 - f.exp IN
         IF k >= MantissaBits THEN {0}
         ELSE IF k >= 27 THEN {f.hi \div 2^(k - 27)}
         ELSE IF k >= 23 THEN {f.hi * 2^(27 - k) + f.lo \div 2^k}
         ELSE {HugeInt}

(***************************************************************************)
(* Flapper.FlapChart                                                       *)
(***************************************************************************)
EnumUnknown == 0
EnumUp == 1
EnumDown == 2
EnumFlappingUp == 3
EnumFlappingDown == 4

ColorUp        == [R |-> 10,  G |-> 178, B |-> 38,  A |-> 255]
ColorUpState   == [R |-> 125, G |-> 212, B |-> 139, A |-> 255]
ColorDown      == [R |-> 212, G |-> 57,  B |-> 57,  A |-> 255]
ColorDownState == [R |-> 239, G |-> 106, B |-> 106, A |-> 255]
ColorFlapping  == [R |-> 255, G |-> 128, B |-> 0,   A |-> 255]
ColorUnknown   == [R |-> 200, G |-> 200, B |-> 200, A |-> 255]

Buckets == 0..(flapChartWidth - 1)

\* The windows charted, by their length in seconds: a single instant, a
\* short one, one of 25 s, and one with a bucket per second.
StartTimes == {1000}
Intervals == {0, 3, 25, 332}

\* The seconds from the start of a window of length i that flaps occur at.
FlapOffsets(i) ==
    IF i <= 3 THEN 0..i ELSE {0, 1, 2, i \div 2, (i \div 2) + 1, i - 1, i}

\* PortFlaps: the flaps of the port with start <= time <= end, ORDER BY time.
FlapsOfWindow(s, e) ==
    {f \in UNION {[1..n -> [Time : {s + o : o \in FlapOffsets(e - s)},
                             IfOperStatus : OperStatuses]] : n \in 0..MaxFlaps} :
        \A i \in 1..(Len(f) - 1) : f[i].Time <= f[i + 1].Time}

\* intervalSeconds := q.End.Unix() - q.Start.Unix()
\* cent := float64(intervalSeconds) / (flapChartWidth - 1)
Cent(start, end) == FDiv(IntToFloat(end - start), IntToFloat(flapChartWidth - 1))

\* x := int(float64(flap.Time.Unix() - q.Start.Unix()) / cent)
BucketOf(flap) == FloatToInt(FDiv(IntToFloat(flap.Time - qStart), cent))

\* A seed that takes the first flap's own status.
SeedStatusSame(st, flap) ==
    IF st # EnumUnknown THEN st
    ELSE IF flap.IfOperStatus = ifStatusUpCaption THEN EnumUp ELSE EnumDown

\* if status == EnumUnknown { up -> EnumDown, else -> EnumUp }
SeedStatus(st, flap) ==
    IF st # EnumUnknown THEN st
    ELSE IF flap.IfOperStatus = ifStatusUpCaption THEN EnumDown ELSE EnumUp

\* A classification that calls a bucket flapping only when the status changes.
ClassifyOnChange(val, flap) ==
    LET up == flap.IfOperStatus = ifStatusUpCaption IN
    IF val = EnumUnknown THEN (IF up THEN EnumUp ELSE EnumDown)
    ELSE IF up THEN (IF val \in {EnumUp, EnumFlappingUp} THEN val ELSE EnumFlappingUp)
    ELSE (IF val \in {EnumDown, EnumFlappingDown} THEN val ELSE EnumFlappingDown)

\* The new timeLine[x], from val := timeLine[x] and the flap.
Classify(val, flap) ==
    IF val = EnumUnknown
    THEN (IF flap.IfOperStatus = ifStatusUpCaption THEN EnumUp ELSE EnumDown)
    ELSE (IF flap.IfOperStatus = ifStatusUpCaption THEN EnumFlappingUp
          ELSE EnumFlappingDown)

\* A painting of empty buckets that never falls back to the neutral colour.
PaintUnknownNoNeutral(st) ==
    IF st = EnumUp THEN ColorUpState ELSE ColorDownState

\* case EnumUnknown of the colour switch.
PaintUnknown(st) ==
    IF st = EnumUp THEN ColorUpState
    ELSE IF st = EnumDown THEN ColorDownState
    ELSE ColorUnknown

\* One case of the colour switch: the colour of a bucket.
PaintBucket(enum, st) ==
    IF enum = EnumUnknown THEN PaintUnknown(st)
    ELSE IF enum = EnumUp THEN ColorUp
    ELSE IF enum = EnumDown THEN ColorDown
    ELSE ColorFlapping

\* One case of the colour switch: the status carried to the next bucket.
CarryStatus(enum, st) ==
    IF enum = EnumUnknown THEN st
    ELSE IF enum \in {EnumUp, EnumFlappingUp} THEN EnumUp
    ELSE EnumDown

\* A Go slice, indexed from 0, of the elements of a sequence.
ZeroBased(seq) == [i \in 0..(Len(seq) - 1) |-> seq[i + 1]]

\* The colour loop over two adjacent ranges of buckets, one after the other.
JoinFill(left, right) ==
    [line |-> left.line \o right.line, status |-> right.status]

\* for i, enum := range timeLine { switch enum { ... } } over buckets lo..hi,
\* entered with status st: the colours painted and the status left.  The
\* range is walked left to right, as two halves one after the other.
RECURSIVE FillColors(_, _, _)
FillThen(left, lo, hi) == JoinFill(left, FillColors(lo, hi, left.status))
FillColors(lo, hi, st) ==
    IF lo = hi
    THEN [line |-> <<PaintBucket(timeLine[lo], st)>>,
          status |-> CarryStatus(timeLine[lo], st)]
    ELSE FillThen(FillColors(lo, (lo + hi) \div 2, st), (lo + hi) \div 2 + 1, hi)

\* One iteration of `for _, flap := range flaps`.  With x outside timeLine,
\* timeLine[x] panics ("index out of range") and the handler is gone.
ChartFlap ==
    /\ pc = "chart"
    /\ fidx <= Len(flaps)
    /\ status' = SeedStatus(status, flaps[fidx])
    /\ \E x \in BucketOf(flaps[fidx]) :
          /\ lastX' = Append(lastX, x)
          /\ IF x \in Buckets
             THEN /\ timeLine' = [timeLine EXCEPT ![x] = Classify(@, flaps[fidx])]
                  /\ fidx' = fidx + 1
                  /\ pc' = pc
             ELSE /\ pc' = "panic"
                  /\ UNCHANGED <<timeLine, fidx>>
    /\ UNCHANGED <<qStart, qEnd, cent, flaps, colorLine>>
    /\ UNCHANGED reviewVars

\* The colour loop, and the columns drawn from colorLine.
ChartFill ==
    /\ pc = "chart"
    /\ fidx > Len(flaps)
    /\ LET f == FillColors(0, flapChartWidth - 1, status) IN
          /\ colorLine' = ZeroBased(f.line)
          /\ status' = f.status
    /\ pc' = "chart_done"
    /\ UNCHANGED <<qStart, qEnd, cent, flaps, fidx, timeLine, lastX>>
    /\ UNCHANGED reviewVars

InitChart ==
    /\ pc = "chart"
    /\ qStart \in StartTimes
    /\ \E i \in Intervals : qEnd = qStart + i
    /\ cent = Cent(qStart, qEnd)
    /\ flaps \in FlapsOfWindow(qStart, qEnd)
    /\ fidx = 1
    /\ status = EnumUnknown
    /\ timeLine = [i \in Buckets |-> EnumUnknown]
    /\ colorLine = <<>>
    /\ lastX = <<>>
    /\ rows = <<>> /\ perIterationLoopVar = FALSE /\ idx = 1 /\ loopVars = <<>>
    /\ result = ZeroResult /\ host = ZeroHost /\ merged = <<>>

NextChart ==
    \/ ChartFlap
    \/ ChartFill

SpecChart == InitChart /\ [][NextChart]_vars

(***************************************************************************)
(* What the claims speak of, defined on the input rows alone.              *)
(***************************************************************************)
RECURSIVE SumFlapCount(_)
SumFlapCount(ports) ==
    IF ports = <<>> THEN 0 ELSE Head(ports).FlapCount + SumFlapCount(Tail(ports))

CountAddr(rs, a) == Cardinality({i \in 1..Len(rs) : rs[i].Ipaddress = a})

FirstIndexOf(rs, a) == CHOOSE i \in 1..Len(rs) :
    /\ rs[i].Ipaddress = a
    /\ \A j \in 1..(i - 1) : rs[j].Ipaddress # a

\* ORDER BY ipaddress, ifIndex, time ASC
RowLeq(a, b) ==
    \/ AddrRank(a.Ipaddress) < AddrRank(b.Ipaddress)
    \/ /\ a.Ipaddress = b.Ipaddress
       /\ \/ a.IfIndex < b.IfIndex
          \/ a.IfIndex = b.IfIndex /\ a.Time <= b.Time

IsSorted(rs) == \A i \in 1..(Len(rs) - 1) : RowLeq(rs[i], rs[i + 1])

\* The device addresses of the maximal runs of equal address, in run order.
RECURSIVE RunAddrs(_)
RunAddrs(rs) ==
    IF rs = <<>> THEN <<>>
    ELSE IF Len(rs) > 1 /\ rs[1].Ipaddress = rs[2].Ipaddress THEN RunAddrs(Tail(rs))
    ELSE <<rs[1].Ipaddress>> \o RunAddrs(Tail(rs))

Returned == pc = "review_done"

\* The PortViews of the returned result, by their key in the history variable.
ResultKeys == {k \in DOMAIN merged : k[1] <= Len(result.Hosts)}
PortAt(k) == result.Hosts[k[1]].Ports[k[2]]
MergedTimes(k) == {rows[merged[k][i]].Time : i \in 1..Len(merged[k])}
SetMin(S) == CHOOSE x \in S : \A y \in S : x <= y
SetMax(S) == CHOOSE x \in S : \A y \in S : x >= y

\* The alias of the last of these rows that carries one ("" when none does).
RECURSIVE LastAlias(_)
LastAlias(ixs) ==
    IF ixs = <<>> THEN ""
    ELSE IF rows[ixs[Len(ixs)]].IfAlias # NULL THEN rows[ixs[Len(ixs)]].IfAlias
    ELSE LastAlias(SubSeq(ixs, 1, Len(ixs) - 1))

(***************************************************************************)
(* Claims about Flapper.Review                                             *)
(***************************************************************************)

\* C1: for every non-empty input sorted by (address, port, time), the hosts
\* of the result are in the order of their first appearance in the input and
\* each host's flapCounts sum to the number of rows with its address.
C1_HostOrderAndCounts ==
    (Returned /\ rows # <<>> /\ IsSorted(rows)) =>
        LET H == result.Hosts IN
        /\ \A k \in 1..Len(H) : \E i \in 1..Len(rows) : rows[i].Ipaddress = H[k].Ipaddress
        /\ \A k, l \in 1..Len(H) :
              k < l => FirstIndexOf(rows, H[k].Ipaddress) < FirstIndexOf(rows, H[l].Ipaddress)
        /\ \A k \in 1..Len(H) :
              SumFlapCount(H[k].Ports) = CountAddr(rows, H[k].Ipaddress)

\* C2: the result's OldestFlapID is the id of the first row, whatever that
\* id is, and 0 when there is no row.
C2_OldestIsFirstId ==
    Returned =>
        result.Params.OldestFlapID = (IF rows = <<>> THEN 0 ELSE rows[1].Id)

\* C3: in the returned result of a non-empty input, FirstFlapTime is the
\* time of the first row and LastFlapTime the time of the last row.
C3_WindowTimes ==
    (Returned /\ rows # <<>>) =>
        /\ result.Params.FirstFlapTime # NilPtr
        /\ result.Params.LastFlapTime # NilPtr
        /\ Deref(result.Params.FirstFlapTime) = rows[1].Time
        /\ Deref(result.Params.LastFlapTime) = rows[Len(rows)].Time

\* C4: the result holds exactly one Host per maximal run of rows with equal
\* device address, in run order, and the host under construction at the end
\* of the pass is in the result whenever at least one row was processed.
C4_OneHostPerRun ==
    Returned =>
        /\ Len(result.Hosts) = Len(RunAddrs(rows))
        /\ \A k \in 1..Len(result.Hosts) :
              result.Hosts[k].Ipaddress = RunAddrs(rows)[k]
        /\ rows # <<>> =>
              /\ result.Hosts # <<>>
              /\ result.Hosts[Len(result.Hosts)] = host

\* C9: every PortView of the result has the operStatus of the last row folded
\* into it and the alias of the last such row that carried an alias.
C9_LastSeenStatusAndAlias ==
    Returned =>
        \A k \in ResultKeys :
            /\ PortAt(k).IfOperStatus = rows[merged[k][Len(merged[k])]].IfOperStatus
            /\ PortAt(k).IfAlias = LastAlias(merged[k])

\* C10: every PortView of the result has the minimum of the times of the rows
\* folded into it as FirstFlapTime and the maximum as LastFlapTime, in
\* whatever order they came, so FirstFlapTime <= LastFlapTime; a port with one
\* row has FlapCount = 1 and both times equal to that row's time.
C10_SpanIsMinMax ==
    Returned =>
        \A k \in ResultKeys :
            /\ PortAt(k).FirstFlapTime = SetMin(MergedTimes(k))
            /\ PortAt(k).LastFlapTime = SetMax(MergedTimes(k))
            /\ PortAt(k).FirstFlapTime <= PortAt(k).LastFlapTime
            /\ Len(merged[k]) = 1 =>
                  /\ PortAt(k).FlapCount = 1
                  /\ PortAt(k).FirstFlapTime = rows[merged[k][1]].Time
                  /\ PortAt(k).LastFlapTime = rows[merged[k][1]].Time

\* Three rows of one port whose times come as 2, 1, 3 have been folded.
C10_Witness ==
    /\ Returned
    /\ \E k \in ResultKeys :
          /\ Len(merged[k]) = 3
          /\ rows[merged[k][1]].Time = 2
          /\ rows[merged[k][2]].Time = 1
          /\ rows[merged[k][3]].Time = 3
          /\ PortAt(k).FlapCount = 3

\* The maximal runs of rows with equal device address, in order.
RECURSIVE Runs(_)
Runs(rs) ==
    IF rs = <<>> THEN <<>>
    ELSE LET rest == Runs(Tail(rs)) IN
         IF rest # <<>> /\ rest[1][1].Ipaddress = rs[1].Ipaddress
         THEN <<(<<rs[1]>> \o rest[1])>> \o Tail(rest)
         ELSE <<(<<rs[1]>>)>> \o rest

\* The distinct ifIndexes of a run, in the order of their first appearance.
RECURSIVE FirstSeenIfIndexes(_)
FirstSeenIfIndexes(run) ==
    IF run = <<>> THEN <<>>
    ELSE LET init == FirstSeenIfIndexes(SubSeq(run, 1, Len(run) - 1))
             n    == run[Len(run)].IfIndex
         IN IF \E i \in 1..Len(init) : init[i] = n THEN init ELSE Append(init, n)

PortIndexes(h) == [i \in 1..Len(h.Ports) |-> h.Ports[i].IfIndex]

\* The rows the pass has processed, and the hosts it has built from them:
\* the sealed ones and, during the pass, the one under construction.
RowsDone == SubSeq(rows, 1, idx - 1)
HostsSoFar ==
    IF pc = "review" /\ RowsDone # <<>> THEN Append(result.Hosts, host)
    ELSE result.Hosts

\* C11: after every step of the pass, each host's port list has exactly one
\* PortView per distinct ifIndex among the rows of that host's run, in the
\* order the ifIndexes first appeared, and every PortView has FlapCount >= 1.
C11_OnePortPerIfIndex ==
    pc \in {"review", "review_done"} =>
        \A k \in 1..Len(HostsSoFar) :
            /\ k <= Len(Runs(RowsDone))
            /\ PortIndexes(HostsSoFar[k]) = FirstSeenIfIndexes(Runs(RowsDone)[k])
            /\ \A i \in 1..Len(HostsSoFar[k].Ports) :
                  HostsSoFar[k].Ports[i].FlapCount >= 1

(***************************************************************************)
(* Claims about Flapper.FlapChart                                          *)
(***************************************************************************)
Charted == pc = "chart_done"

\* The flaps that went to bucket j, by their position in flaps.
FlapsIn(j) == {k \in 1..Len(lastX) : lastX[k] = j}
EventBuckets == {lastX[k] : k \in 1..Len(lastX)}
LastFlapIn(j) == flaps[SetMax(FlapsIn(j))]
IsUp(flap) == flap.IfOperStatus = ifStatusUpCaption

\* C5: every flap of the window gets a bucket index within 0..width-1, so
\* that timeLine is never indexed out of bounds, and a flap at the end of
\* the window gets bucket width-1, also when the window is a single instant.
C5_BucketInRange ==
    /\ pc # "panic"
    /\ \A k \in 1..Len(lastX) :
          /\ lastX[k] \in Buckets
          /\ flaps[k].Time = qEnd => lastX[k] = flapChartWidth - 1

\* C6: with no flap the chart has exactly width colours, every one the
\* neutral Unknown colour, and the handler does not panic.
C6_EmptyIsAllUnknown ==
    flaps = <<>> =>
        /\ pc # "panic"
        /\ Charted =>
              /\ DOMAIN colorLine = Buckets
              /\ \A i \in Buckets : colorLine[i] = ColorUnknown

\* A chart of no flaps has been painted.
C6_Witness ==
    /\ Charted
    /\ flaps = <<>>
    /\ colorLine[0] = ColorUnknown
    /\ colorLine[flapChartWidth - 1] = ColorUnknown

\* C7: with at least one flap, a bucket that got no flap is painted the state
\* shade of the status carried to it: left of the first bucket with a flap,
\* the opposite of the first flap's status; further right, the status of
\* the last flap of the nearest bucket with a flap to its left.  No bucket
\* is painted the neutral Unknown colour.
C7_EmptyBucketsCarryStatus ==
    (Charted /\ flaps # <<>>) =>
        /\ \A i \in Buckets \ EventBuckets :
              LET L == {j \in EventBuckets : j < i} IN
              colorLine[i] =
                 IF L = {}
                 THEN (IF IsUp(flaps[1]) THEN ColorDownState ELSE ColorUpState)
                 ELSE (IF IsUp(LastFlapIn(SetMax(L))) THEN ColorUpState
                       ELSE ColorDownState)
        /\ \A i \in Buckets : colorLine[i] # ColorUnknown

\* Two flaps, first up then down, in two buckets with empty buckets before,
\* between and after them.
C7_Witness ==
    /\ Charted
    /\ Len(lastX) = 2
    /\ IsUp(flaps[1]) /\ ~IsUp(flaps[2])
    /\ 0 < lastX[1]
    /\ lastX[1] + 1 < lastX[2]
    /\ lastX[2] < flapChartWidth - 1
    /\ colorLine[0] = ColorDownState
    /\ colorLine[lastX[1] + 1] = ColorUpState
    /\ colorLine[flapChartWidth - 1] = ColorDownState

\* C8: a bucket with exactly one flap is Up or Down as that flap is and has
\* the Up or Down colour; a bucket with two or more flaps is FlappingUp or
\* FlappingDown as its last flap alone is, has the Flapping colour and
\* carries the status Up or Down of that last flap to what follows.
C8_BucketClassification ==
    Charted =>
        \A j \in EventBuckets :
            LET up == IsUp(LastFlapIn(j)) IN
            /\ Cardinality(FlapsIn(j)) = 1 =>
                  /\ timeLine[j] = (IF up THEN EnumUp ELSE EnumDown)
                  /\ colorLine[j] = (IF up THEN ColorUp ELSE ColorDown)
            /\ Cardinality(FlapsIn(j)) >= 2 =>
                  /\ timeLine[j] = (IF up THEN EnumFlappingUp ELSE EnumFlappingDown)
                  /\ colorLine[j] = ColorFlapping
                  /\ (j + 1 \in Buckets \ EventBuckets) =>
                        colorLine[j + 1] = (IF up THEN ColorUpState ELSE ColorDownState)
                  /\ j = flapChartWidth - 1 =>
                        status = (IF up THEN EnumUp ELSE EnumDown)

\* Two flaps, both down, have gone to one bucket, which is FlappingDown.
C8_Witness ==
    /\ Charted
    /\ \E j \in EventBuckets :
          /\ Cardinality(FlapsIn(j)) = 2
          /\ \A k \in FlapsIn(j) : ~IsUp(flaps[k])
          /\ timeLine[j] = EnumFlappingDown
          /\ colorLine[j] = ColorFlapping

====
